---- MODULE Spec2Model ----
(***************************************************************************)
(* Ernesto backend: API-key authentication, content models and            *)
(* configuration validation.                                               *)
(*                                                                         *)
(* The model follows app/auth.py (require_api_key.decorated_function) and  *)
(* app/models/api_client.py (ApiClient).  Each worker is one Flask request *)
(* with its own scoped SQLAlchemy session; the api_clients table is the    *)
(* only shared state.  A request touches the table twice: the SELECT of    *)
(* line 92 and the UPDATE flushed by db.session.commit() at line 118.      *)
(* Everything between is local to the request, so these two points are the *)
(* interleaving points of the model.  Reading an attribute of the loaded   *)
(* client (client.name in the log calls of lines 120-131) is a read of the *)
(* object, not of the table.                                               *)
(*                                                                         *)
(* Spec and SpecParse run the gate with the table indexed by name (db);    *)
(* names are unique in the table, which SpecKeygen establishes.            *)
(* SpecClient runs the methods of one ApiClient object, SpecStore adds the *)
(* INSERT of such objects, and SpecKeygen runs generate_api_key.py; these  *)
(* three see the table as a set of rows with ids (api_clients).  SpecLife  *)
(* stores clients made by create_with_api_key in db and sends requests     *)
(* with their credentials.  SpecContent runs creates and deletes of        *)
(* Source, Topic and Article rows (app/models), and SpecConfig runs        *)
(* validate_config (app/validators.py) on a drawn configuration.           *)
(***************************************************************************)
EXTENDS Integers, Sequences, FiniteSets, TLC

VARIABLES
    db,            \* api_clients table: name -> <<>> (no row) or <<row>>
    now,           \* the instant the next datetime.utcnow() returns
    started,       \* number of requests received so far
    usage_commits, \* per client: db.session.commit() calls of line 118 that returned
    pc,            \* per worker: position in decorated_function
    header,        \* per worker: request.headers.get("X-API-Key"), <<>> when absent
    client_name,   \* per worker: local client_name (line 75)
    secret_key,    \* per worker: local secret_key (line 75)
    client,        \* per worker: the ApiClient object loaded into the session, <<>> for None
    pending,       \* per worker: attribute changes of the session not yet flushed
    g_api_client,  \* per worker: flask.g.api_client, <<>> when not set
    resp,          \* per worker: the response returned to the caller, <<>> while running
    view_calls,    \* per worker: number of calls of the wrapped view f
    lookups,       \* per worker: number of ApiClient.query lookups issued
    exc,           \* per worker: the calls that raised during this request
    log,           \* per worker: the log records emitted during this request
    api_clients,   \* the api_clients table as creation sees it: a set of rows with ids
    obj,           \* the ApiClient object a caller holds, <<>> when it holds none
    plaintext,     \* the plaintext api_key last generated or set on obj, <<>> when none
    raised,        \* the exception the caller's last call raised, "" when none
    checked,       \* the last check_api_key call: <<secret, outcome>>, <<>> when none
    run,           \* per run of generate_api_key.py: its position and locals
    sources,       \* the sources table: the ids of its rows
    topics,        \* the topics table: the ids of its rows
    articles,      \* the articles table: rows with id, source_id and topic_id
    uuids,         \* number of uuid4() primary keys drawn so far
    deleted,       \* the ids of the Source and Topic rows deleted so far
    cascaded,      \* the Article rows the last delete of a parent took with it
    enforce_fk,    \* whether the database enforces foreign keys
    config,        \* the configuration object handed to validate_config
    errors,        \* ConfigValidator.errors after the last validate_all
    validated      \* how the last validate_config ended, "" before it ran

\* The variables of the gate, of the model class and of the command line.
\* Each specification below runs one part of the program; the variables of
\* the other parts keep their initial values in it.
gateVars == <<db, now, started, usage_commits, pc, header, client_name, secret_key,
              client, pending, g_api_client, resp, view_calls, lookups, exc, log>>

modelVars == <<api_clients, obj, plaintext, raised, checked>>

contentVars == <<sources, topics, articles, uuids, deleted, cascaded, enforce_fk>>

configVars == <<config, errors, validated>>

otherVars == <<contentVars, configVars>>

vars == <<gateVars, modelVars, run, otherVars>>

(***************************************************************************)
(* Bounds of the model.                                                    *)
(***************************************************************************)
NumWorkers == 2
MaxRequests == 3
MaxHeaderLen == 5
NumRuns == 2
MaxClients == 2

Workers == 1..NumWorkers

(***************************************************************************)
(* Strings are sequences of one-character strings.                         *)
(***************************************************************************)
NameA == <<"a">>
NameB == <<"b">>
NameC == <<"c">>
SecretS == <<"s">>
SecretT == <<"t">>

ClientNames == {NameA, NameB, NameC}
Credential(name, secret) == name \o <<".">> \o secret

\* The header values a request may carry: absent, empty, without a dot,
\* with an empty secret, with an empty name, and name.secret for client a
\* with its own secret, with another secret and with a secret that is a dot,
\* for client b and for a name that is not stored.
HeaderInputs ==
    {<<>>, <<<<>>>>, <<NameA>>, <<<<"a", ".">>>>, <<<<".", "s">>>>,
     <<Credential(NameA, SecretS)>>, <<Credential(NameA, SecretT)>>,
     <<Credential(NameA, <<".">>)>>,
     <<Credential(NameB, SecretT)>>, <<Credential(NameC, SecretS)>>}

\* Every header value of at most MaxHeaderLen characters over a letter of a
\* stored name, a letter of a secret and the separator, and no header.
Chars == {"a", "s", "."}

Strings(n) == UNION {[1..k -> Chars] : k \in 0..n}

AllHeaders == {<<>>} \cup {<<h>> : h \in Strings(MaxHeaderLen)}

\* A secret with a dot in it, as set_api_key accepts.
SecretDotted == <<"s", ".", "s">>

(***************************************************************************)
(* bcrypt as used by ApiClient.set_api_key / check_api_key.  A hash is a   *)
(* string: the marker "$", the salt, and a digest that is a one-way        *)
(* function of the salt and of the first 72 bytes of the password (the     *)
(* digest is modelled by those bytes themselves: no collisions).  bcrypt   *)
(* ignores what follows the 72nd byte of a password.                       *)
(***************************************************************************)
ValidSalts == {"1", "2"}

bcrypt_truncate(secret) == SubSeq(secret, 1, IF Len(secret) < 72 THEN Len(secret) ELSE 72)

hashpw(secret, salt) == <<"$", salt>> \o bcrypt_truncate(secret)

\* A stored value that is not a bcrypt hash at all (hashed_api_key="some_key"
\* in tests/models/test_api_client.py): bcrypt finds no valid salt in it.
CorruptSaltHash == <<"k">>

\* bcrypt.checkpw raises ValueError("Invalid salt") when the stored value
\* has no valid salt.
checkpw_raises(hashed) ==
    ~(Len(hashed) >= 2 /\ hashed[1] = "$" /\ hashed[2] \in ValidSalts)

\* bcrypt.checkpw: re-hash the password with the stored salt and compare.
checkpw(secret, hashed) == hashpw(secret, hashed[2]) = hashed

\* ApiClient.check_api_key
check_api_key(c, api_key) == checkpw(api_key, c.hashed_api_key)

check_api_key_raises(c) == checkpw_raises(c.hashed_api_key)

(***************************************************************************)
(* Responses.                                                              *)
(***************************************************************************)
Response(status, error, message) ==
    [status |-> status, error |-> error, message |-> message]

KeyRequired == Response(401, "Authentication failed", "API key is required")
InvalidFormat == Response(401, "Authentication failed", "Invalid API key format")
MalformedKey == Response(401, "Authentication failed", "Malformed API key")
InvalidOrInactive ==
    Response(401, "Authentication failed", "Invalid or inactive API key")
ServiceUnavailable ==
    Response(500, "Authentication service unavailable", "Please try again later")
ServiceError ==
    Response(500, "Authentication service error", "Please try again later")
\* What the wrapped view returns (protected_view of the tests).
ViewResponse == Response(200, "", "success")

(***************************************************************************)
(* Parsing of the header (lines 48-88).                                    *)
(***************************************************************************)
HasDot(s) == \E i \in 1..Len(s) : s[i] = "."

\* str.split(".", 1) on a string that contains a dot
FirstDot(s) == CHOOSE i \in 1..Len(s) : s[i] = "." /\ \A j \in 1..(i - 1) : s[j] # "."

split_name(s) == SubSeq(s, 1, FirstDot(s) - 1)

\* Variant: the secret is the field between the first and the second dot.
split_secret_one_field(s) ==
    LET rest == SubSeq(s, FirstDot(s) + 1, Len(s)) IN
    IF HasDot(rest) THEN SubSeq(rest, 1, FirstDot(rest) - 1) ELSE rest

split_secret(s) == SubSeq(s, FirstDot(s) + 1, Len(s))

\* Variant: the '.' test placed before the emptiness test.
format_rejection_dot_first(h) ==
    IF h = <<>> THEN <<KeyRequired>>
    ELSE IF ~HasDot(h[1]) THEN <<InvalidFormat>>
    ELSE IF split_name(h[1]) = <<>> \/ split_secret(h[1]) = <<>> THEN <<MalformedKey>>
    ELSE <<>>

\* The early return of lines 48-88 for header option h, <<>> when there is none.
format_rejection(h) ==
    IF h = <<>> \/ h[1] = <<>> THEN <<KeyRequired>>
    ELSE IF ~HasDot(h[1]) THEN <<InvalidFormat>>
    ELSE IF split_name(h[1]) = <<>> \/ split_secret(h[1]) = <<>> THEN <<MalformedKey>>
    ELSE <<>>

(***************************************************************************)
(* The table.                                                              *)
(***************************************************************************)
NoTime == <<>>

\* A row as the INSERT of a new client leaves it (lines 25-37): created_at
\* holds the instant of the INSERT, which precedes every clock read of
\* the requests; the usage columns hold their defaults.
Row(name, hashed, active) ==
    [name |-> name, hashed_api_key |-> hashed, is_active |-> active,
     created_at |-> <<0>>, last_used_at |-> NoTime, use_count |-> 0]

\* Variant: the lookup filters by name only.
query_by_name(table, name) ==
    IF name \in DOMAIN table /\ table[name] # <<>> THEN table[name] ELSE <<>>

\* ApiClient.query.filter_by(name=client_name, is_active=True).first()
query_active(table, name) ==
    IF name \in DOMAIN table /\ table[name] # <<>> /\ table[name][1].is_active
    THEN table[name] ELSE <<>>

\* The Python side before any caller of the model class or run of the
\* command line has started.
Runs == 1..NumRuns

\* A run of generate_api_key.py that has not started: its position, the
\* locals client_name, new_client and api_key, the exception that ended it,
\* its exit status and the key it printed (<<>> for none).
IdleRun ==
    [pc |-> "idle", client_name |-> <<>>, new_client |-> <<>>, api_key |-> <<>>,
     raised |-> "", status |-> <<>>, printed |-> <<>>]

\* No Source, Topic or Article is stored and no primary key was drawn.
NoContent ==
    /\ sources = {}
    /\ topics = {}
    /\ articles = {}
    /\ uuids = 0
    /\ deleted = {}
    /\ cascaded = {}
    /\ enforce_fk = TRUE

\* validate_config was not called.
NoConfig ==
    /\ config = <<>>
    /\ errors = {}
    /\ validated = ""

NoCaller ==
    /\ api_clients = {}
    /\ obj = <<>>
    /\ plaintext = <<>>
    /\ raised = ""
    /\ checked = <<>>
    /\ run = [p \in Runs |-> IdleRun]

\* Client a was created by create_with_api_key; client b was constructed
\* with a hashed_api_key that is not a bcrypt hash; no client c is stored.
Init ==
    /\ db = [n \in ClientNames |->
               IF n = NameA THEN <<Row(NameA, hashpw(SecretS, "1"), TRUE)>>
               ELSE IF n = NameB THEN <<Row(NameB, CorruptSaltHash, TRUE)>>
               ELSE <<>>]
    /\ now = 1
    /\ started = 0
    /\ usage_commits = [n \in ClientNames |-> 0]
    /\ pc = [w \in Workers |-> "idle"]
    /\ header = [w \in Workers |-> <<>>]
    /\ client_name = [w \in Workers |-> <<>>]
    /\ secret_key = [w \in Workers |-> <<>>]
    /\ client = [w \in Workers |-> <<>>]
    /\ pending = [w \in Workers |-> <<>>]
    /\ g_api_client = [w \in Workers |-> <<>>]
    /\ resp = [w \in Workers |-> <<>>]
    /\ view_calls = [w \in Workers |-> 0]
    /\ lookups = [w \in Workers |-> 0]
    /\ exc = [w \in Workers |-> {}]
    /\ log = [w \in Workers |-> {}]
    /\ NoCaller
    /\ NoContent
    /\ NoConfig

(***************************************************************************)
(* The log calls of decorated_function: level, format string, arguments.   *)
(* remote_ip (line 45) and the text of an exception, str(e), do not depend *)
(* on the header.                                                          *)
(***************************************************************************)
RemoteIp == <<"i">>

ExcText == <<"e">>

LogRecord(level, message, args) == [level |-> level, message |-> message, args |-> args]

\* Lines 50, 62, 77: the warning that goes with a format rejection.
format_log(h) ==
    IF h = <<>> \/ h[1] = <<>>
    THEN {LogRecord("warning", "Authentication failed: Missing API key header from IP %s",
                    <<RemoteIp>>)}
    ELSE IF ~HasDot(h[1])
    THEN {LogRecord("warning", "Authentication failed: Invalid API key format from IP %s",
                    <<RemoteIp>>)}
    ELSE IF split_name(h[1]) = <<>> \/ split_secret(h[1]) = <<>>
    THEN {LogRecord("warning", "Authentication failed: Malformed API key from IP %s",
                    <<RemoteIp>>)}
    ELSE {}

\* Variant: the warning of line 96 names the presented key.
log_invalid_key_whole(w) ==
    LogRecord("warning", "Authentication failed: Invalid API key for client '%s' from IP %s",
              <<header[w][1], RemoteIp>>)

\* Line 96.
log_invalid_key(w) ==
    LogRecord("warning", "Authentication failed: Invalid API key for client '%s' from IP %s",
              <<client_name[w], RemoteIp>>)

\* Line 120.
log_success(w) ==
    LogRecord("info", "Authentication successful: Client '%s' from IP %s",
              <<client[w][1].name, RemoteIp>>)

\* Line 127.
log_usage_failure(w) ==
    LogRecord("error", "Failed to update usage statistics for client '%s': %s",
              <<client[w][1].name, ExcText>>)

\* Line 137.
log_database_error ==
    LogRecord("error", "Database error during authentication from IP %s: %s",
              <<RemoteIp, ExcText>>)

\* Line 151.
log_unexpected_error ==
    LogRecord("error", "Unexpected error during authentication from IP %s: %s",
              <<RemoteIp, ExcText>>)

(***************************************************************************)
(* decorated_function, lines 45-88: read the header and parse it.          *)
(***************************************************************************)
\* Variant: a format rejection after earlier requests is answered as overload.
ReceiveThrottled(w, h) ==
    /\ pc[w] = "idle"
    /\ started < MaxRequests
    /\ started' = started + 1
    /\ header' = [header EXCEPT ![w] = h]
    /\ IF h # <<>> /\ HasDot(h[1])
       THEN /\ client_name' = [client_name EXCEPT ![w] = split_name(h[1])]
            /\ secret_key' = [secret_key EXCEPT ![w] = split_secret(h[1])]
       ELSE UNCHANGED <<client_name, secret_key>>
    /\ IF format_rejection(h) # <<>>
       THEN /\ resp' = [resp EXCEPT ![w] =
                           IF started > 0 THEN <<ServiceUnavailable>>
                           ELSE format_rejection(h)]
            /\ pc' = [pc EXCEPT ![w] = "done"]
       ELSE /\ pc' = [pc EXCEPT ![w] = "lookup"]
            /\ UNCHANGED resp
    /\ UNCHANGED <<db, now, usage_commits, client, pending, g_api_client,
                   view_calls, lookups, exc>>
    /\ log' = [log EXCEPT ![w] = @ \cup format_log(h)]
    /\ UNCHANGED <<modelVars, run, otherVars>>

Receive(w, h) ==
    /\ pc[w] = "idle"
    /\ started < MaxRequests
    /\ started' = started + 1
    /\ header' = [header EXCEPT ![w] = h]
    /\ IF h # <<>> /\ HasDot(h[1])
       THEN /\ client_name' = [client_name EXCEPT ![w] = split_name(h[1])]
            /\ secret_key' = [secret_key EXCEPT ![w] = split_secret(h[1])]
       ELSE UNCHANGED <<client_name, secret_key>>
    /\ IF format_rejection(h) # <<>>
       THEN /\ resp' = [resp EXCEPT ![w] = format_rejection(h)]
            /\ pc' = [pc EXCEPT ![w] = "done"]
       ELSE /\ pc' = [pc EXCEPT ![w] = "lookup"]
            /\ UNCHANGED resp
    /\ UNCHANGED <<db, now, usage_commits, client, pending, g_api_client,
                   view_calls, lookups, exc>>
    /\ log' = [log EXCEPT ![w] = @ \cup format_log(h)]
    /\ UNCHANGED <<modelVars, run, otherVars>>

\* Variant: a failed lookup is answered like a client that was not found.
LookupErrorAsNotFound(w) ==
    /\ pc[w] = "lookup"
    /\ lookups' = [lookups EXCEPT ![w] = @ + 1]
    /\ exc' = [exc EXCEPT ![w] = @ \cup {"lookup"}]
    /\ resp' = [resp EXCEPT ![w] = <<InvalidOrInactive>>]
    /\ pc' = [pc EXCEPT ![w] = "done"]
    /\ UNCHANGED <<db, now, started, usage_commits, header, client_name,
                   secret_key, client, pending, g_api_client, view_calls>>
    /\ log' = [log EXCEPT ![w] = @ \cup {log_invalid_key(w)}]
    /\ UNCHANGED <<modelVars, run, otherVars>>

(***************************************************************************)
(* Lines 90-112.  The lookup raises a storage error (lines 136-149).       *)
(***************************************************************************)
LookupError(w) ==
    /\ pc[w] = "lookup"
    /\ lookups' = [lookups EXCEPT ![w] = @ + 1]
    /\ exc' = [exc EXCEPT ![w] = @ \cup {"lookup"}]
    /\ resp' = [resp EXCEPT ![w] = <<ServiceUnavailable>>]
    /\ pc' = [pc EXCEPT ![w] = "done"]
    /\ UNCHANGED <<db, now, started, usage_commits, header, client_name,
                   secret_key, client, pending, g_api_client, view_calls>>
    /\ log' = [log EXCEPT ![w] = @ \cup {log_database_error}]
    /\ UNCHANGED <<modelVars, run, otherVars>>

\* Variant: the usage counter is written before the secret is checked.
RejectCountsUsage(w) ==
    /\ pc[w] = "lookup"
    /\ LET found == query_active(db, client_name[w]) IN
       /\ \/ found = <<>>
          \/ /\ found # <<>>
             /\ ~check_api_key_raises(found[1])
             /\ ~check_api_key(found[1], secret_key[w])
       /\ client' = [client EXCEPT ![w] = found]
       /\ db' = IF found = <<>> THEN db
                ELSE [db EXCEPT ![found[1].name] =
                        <<[found[1] EXCEPT !.use_count = @ + 1]>>]
    /\ lookups' = [lookups EXCEPT ![w] = @ + 1]
    /\ resp' = [resp EXCEPT ![w] = <<InvalidOrInactive>>]
    /\ pc' = [pc EXCEPT ![w] = "done"]
    /\ UNCHANGED <<now, started, usage_commits, header, client_name,
                   secret_key, pending, g_api_client, view_calls, exc>>
    /\ log' = [log EXCEPT ![w] = @ \cup {log_invalid_key(w)}]
    /\ UNCHANGED <<modelVars, run, otherVars>>

\* Variant: a name that is not found gets a message of its own.
RejectTellsWhy(w) ==
    /\ pc[w] = "lookup"
    /\ LET found == query_active(db, client_name[w]) IN
       /\ \/ found = <<>>
          \/ /\ found # <<>>
             /\ ~check_api_key_raises(found[1])
             /\ ~check_api_key(found[1], secret_key[w])
       /\ client' = [client EXCEPT ![w] = found]
       /\ resp' = [resp EXCEPT ![w] =
                     IF found = <<>>
                     THEN <<Response(401, "Authentication failed", "Unknown client")>>
                     ELSE <<InvalidOrInactive>>]
    /\ lookups' = [lookups EXCEPT ![w] = @ + 1]
    /\ pc' = [pc EXCEPT ![w] = "done"]
    /\ UNCHANGED <<db, now, started, usage_commits, header, client_name,
                   secret_key, pending, g_api_client, view_calls, exc>>
    /\ log' = [log EXCEPT ![w] = @ \cup {log_invalid_key(w)}]
    /\ UNCHANGED <<modelVars, run, otherVars>>

\* Variant: the rejection is logged but the function does not return.
RejectFallsThrough(w) ==
    /\ pc[w] = "lookup"
    /\ LET found == query_active(db, client_name[w]) IN
       /\ \/ found = <<>>
          \/ /\ found # <<>>
             /\ ~check_api_key_raises(found[1])
             /\ ~check_api_key(found[1], secret_key[w])
       /\ client' = [client EXCEPT ![w] = found]
    /\ lookups' = [lookups EXCEPT ![w] = @ + 1]
    /\ pc' = [pc EXCEPT ![w] = "view"]
    /\ UNCHANGED <<db, now, started, usage_commits, header, client_name,
                   secret_key, pending, g_api_client, resp, view_calls, exc>>
    /\ log' = [log EXCEPT ![w] = @ \cup {log_invalid_key(w)}]
    /\ UNCHANGED <<modelVars, run, otherVars>>

\* The lookup returns; no client or a secret that does not verify (95-109).
Reject(w) ==
    /\ pc[w] = "lookup"
    /\ LET found == query_active(db, client_name[w]) IN
       /\ \/ found = <<>>
          \/ /\ found # <<>>
             /\ ~check_api_key_raises(found[1])
             /\ ~check_api_key(found[1], secret_key[w])
       /\ client' = [client EXCEPT ![w] = found]
    /\ lookups' = [lookups EXCEPT ![w] = @ + 1]
    /\ resp' = [resp EXCEPT ![w] = <<InvalidOrInactive>>]
    /\ pc' = [pc EXCEPT ![w] = "done"]
    /\ UNCHANGED <<db, now, started, usage_commits, header, client_name,
                   secret_key, pending, g_api_client, view_calls, exc>>
    /\ log' = [log EXCEPT ![w] = @ \cup {log_invalid_key(w)}]
    /\ UNCHANGED <<modelVars, run, otherVars>>

\* Variant: an exception of check_api_key is answered like a wrong key.
VerifyErrorAsRejection(w) ==
    /\ pc[w] = "lookup"
    /\ LET found == query_active(db, client_name[w]) IN
       /\ found # <<>>
       /\ check_api_key_raises(found[1])
       /\ client' = [client EXCEPT ![w] = found]
    /\ lookups' = [lookups EXCEPT ![w] = @ + 1]
    /\ exc' = [exc EXCEPT ![w] = @ \cup {"verify"}]
    /\ resp' = [resp EXCEPT ![w] = <<InvalidOrInactive>>]
    /\ pc' = [pc EXCEPT ![w] = "done"]
    /\ UNCHANGED <<db, now, started, usage_commits, header, client_name,
                   secret_key, pending, g_api_client, view_calls>>
    /\ log' = [log EXCEPT ![w] = @ \cup {log_unexpected_error}]
    /\ UNCHANGED <<modelVars, run, otherVars>>

\* The lookup returns a client and check_api_key raises (lines 150-164).
VerifyError(w) ==
    /\ pc[w] = "lookup"
    /\ LET found == query_active(db, client_name[w]) IN
       /\ found # <<>>
       /\ check_api_key_raises(found[1])
       /\ client' = [client EXCEPT ![w] = found]
    /\ lookups' = [lookups EXCEPT ![w] = @ + 1]
    /\ exc' = [exc EXCEPT ![w] = @ \cup {"verify"}]
    /\ resp' = [resp EXCEPT ![w] = <<ServiceError>>]
    /\ pc' = [pc EXCEPT ![w] = "done"]
    /\ UNCHANGED <<db, now, started, usage_commits, header, client_name,
                   secret_key, pending, g_api_client, view_calls>>
    /\ log' = [log EXCEPT ![w] = @ \cup {log_unexpected_error}]
    /\ UNCHANGED <<modelVars, run, otherVars>>

\* The lookup returns a client whose key verifies: g.api_client = client
\* (line 112), and the new usage values are computed from the loaded object
\* and kept in the session until the commit (lines 116-117).  Successive
\* reads of the clock return successive instants.
Admit(w) ==
    /\ pc[w] = "lookup"
    /\ LET found == query_active(db, client_name[w]) IN
       /\ found # <<>>
       /\ ~check_api_key_raises(found[1])
       /\ check_api_key(found[1], secret_key[w])
       /\ client' = [client EXCEPT ![w] = found]
       /\ g_api_client' = [g_api_client EXCEPT ![w] = <<found[1].name>>]
       /\ pending' = [pending EXCEPT ![w] =
                        <<[last_used_at |-> <<now>>,
                           use_count |-> found[1].use_count + 1]>>]
    /\ now' = now + 1
    /\ lookups' = [lookups EXCEPT ![w] = @ + 1]
    /\ pc' = [pc EXCEPT ![w] = "commit"]
    /\ UNCHANGED <<db, started, usage_commits, header, client_name,
                   secret_key, resp, view_calls, exc>>
    /\ UNCHANGED log
    /\ UNCHANGED <<modelVars, run, otherVars>>

(***************************************************************************)
(* Line 118: db.session.commit() flushes                                   *)
(*   UPDATE api_clients SET last_used_at=?, use_count=? WHERE id=?         *)
(* with the values computed at lines 116-117.                              *)
(***************************************************************************)
\* Variant: the UPDATE writes use_count only.
flush_count_only(table, name, changes) ==
    [table EXCEPT ![name] =
        <<[table[name][1] EXCEPT !.use_count = changes.use_count]>>]

\* Variant: the UPDATE writes every column of the loaded object, which the
\* lookup of line 92 loaded as active.
flush_all_columns(table, name, changes) ==
    [table EXCEPT ![name] =
        <<[table[name][1] EXCEPT !.last_used_at = changes.last_used_at,
                                 !.use_count = changes.use_count,
                                 !.is_active = TRUE]>>]

\* Variant: the UPDATE writes use_count and clears last_used_at.
flush_clears_time(table, name, changes) ==
    [table EXCEPT ![name] =
        <<[table[name][1] EXCEPT !.last_used_at = NoTime,
                                 !.use_count = changes.use_count]>>]

flush(table, name, changes) ==
    [table EXCEPT ![name] =
        <<[table[name][1] EXCEPT !.last_used_at = changes.last_used_at,
                                 !.use_count = changes.use_count]>>]

CommitOk(w) ==
    /\ pc[w] = "commit"
    /\ db' = flush(db, client[w][1].name, pending[w][1])
    /\ usage_commits' = [usage_commits EXCEPT ![client[w][1].name] = @ + 1]
    /\ pending' = [pending EXCEPT ![w] = <<>>]
    /\ pc' = [pc EXCEPT ![w] = "view"]
    /\ UNCHANGED <<now, started, header, client_name, secret_key, client,
                   g_api_client, resp, view_calls, lookups, exc>>
    /\ log' = [log EXCEPT ![w] = @ \cup {log_success(w)}]
    /\ UNCHANGED <<modelVars, run, otherVars>>

\* Variant: no inner try, the commit error reaches the outer handler.
CommitErrorPropagates(w) ==
    /\ pc[w] = "commit"
    /\ exc' = [exc EXCEPT ![w] = @ \cup {"commit"}]
    /\ pending' = [pending EXCEPT ![w] = <<>>]
    /\ resp' = [resp EXCEPT ![w] = <<ServiceUnavailable>>]
    /\ pc' = [pc EXCEPT ![w] = "done"]
    /\ UNCHANGED <<db, now, started, usage_commits, header, client_name,
                   secret_key, client, g_api_client, view_calls, lookups>>
    /\ log' = [log EXCEPT ![w] = @ \cup {log_database_error}]
    /\ UNCHANGED <<modelVars, run, otherVars>>

\* Lines 125-132: the commit raises SQLAlchemyError; db.session.rollback().
CommitError(w) ==
    /\ pc[w] = "commit"
    /\ exc' = [exc EXCEPT ![w] = @ \cup {"commit"}]
    /\ pending' = [pending EXCEPT ![w] = <<>>]
    /\ pc' = [pc EXCEPT ![w] = "view"]
    /\ UNCHANGED <<db, now, started, usage_commits, header, client_name,
                   secret_key, client, g_api_client, resp, view_calls, lookups>>
    /\ log' = [log EXCEPT ![w] = @ \cup {log_usage_failure(w)}]
    /\ UNCHANGED <<modelVars, run, otherVars>>

\* Lines 116-120 raise an exception that is not an SQLAlchemyError: the
\* handler of line 125 does not catch it and the one of lines 150-164 does;
\* nothing was written and the session is not rolled back.
UsageError(w) ==
    /\ pc[w] = "commit"
    /\ exc' = [exc EXCEPT ![w] = @ \cup {"usage"}]
    /\ resp' = [resp EXCEPT ![w] = <<ServiceError>>]
    /\ pc' = [pc EXCEPT ![w] = "done"]
    /\ UNCHANGED <<db, now, started, usage_commits, header, client_name,
                   secret_key, client, pending, g_api_client, view_calls, lookups>>
    /\ log' = [log EXCEPT ![w] = @ \cup {log_unexpected_error}]
    /\ UNCHANGED <<modelVars, run, otherVars>>

(***************************************************************************)
(* Line 134: the wrapped view f is called.  The call is inside the outer    *)
(* try, so an exception of the view reaches the handlers of lines 136-164. *)
(***************************************************************************)
ViewReturns(w) ==
    /\ pc[w] = "view"
    /\ view_calls' = [view_calls EXCEPT ![w] = @ + 1]
    /\ resp' = [resp EXCEPT ![w] = <<ViewResponse>>]
    /\ pc' = [pc EXCEPT ![w] = "done"]
    /\ UNCHANGED <<db, now, started, usage_commits, header, client_name,
                   secret_key, client, pending, g_api_client, lookups, exc>>
    /\ UNCHANGED log
    /\ UNCHANGED <<modelVars, run, otherVars>>

ViewRaises(w, kind) ==
    /\ pc[w] = "view"
    /\ view_calls' = [view_calls EXCEPT ![w] = @ + 1]
    /\ exc' = [exc EXCEPT ![w] = @ \cup {kind}]
    /\ resp' = [resp EXCEPT ![w] =
                  IF kind = "view_storage" THEN <<ServiceUnavailable>>
                  ELSE <<ServiceError>>]
    /\ pc' = [pc EXCEPT ![w] = "done"]
    /\ UNCHANGED <<db, now, started, usage_commits, header, client_name,
                   secret_key, client, pending, g_api_client, lookups>>
    /\ log' = [log EXCEPT ![w] = @ \cup {IF kind = "view_storage" THEN log_database_error ELSE log_unexpected_error}]
    /\ UNCHANGED <<modelVars, run, otherVars>>

\* The request context is torn down: g and the scoped session are discarded.
Finish(w) ==
    /\ pc[w] = "done"
    /\ pc' = [pc EXCEPT ![w] = "idle"]
    /\ header' = [header EXCEPT ![w] = <<>>]
    /\ client_name' = [client_name EXCEPT ![w] = <<>>]
    /\ secret_key' = [secret_key EXCEPT ![w] = <<>>]
    /\ client' = [client EXCEPT ![w] = <<>>]
    /\ pending' = [pending EXCEPT ![w] = <<>>]
    /\ g_api_client' = [g_api_client EXCEPT ![w] = <<>>]
    /\ resp' = [resp EXCEPT ![w] = <<>>]
    /\ view_calls' = [view_calls EXCEPT ![w] = 0]
    /\ lookups' = [lookups EXCEPT ![w] = 0]
    /\ exc' = [exc EXCEPT ![w] = {}]
    /\ UNCHANGED <<db, now, started, usage_commits>>
    /\ log' = [log EXCEPT ![w] = {}]
    /\ UNCHANGED <<modelVars, run, otherVars>>

(***************************************************************************)
(* Administrative change of is_active (api_client.is_active = ...;         *)
(* db.session.commit()): UPDATE api_clients SET is_active=? WHERE id=?     *)
(***************************************************************************)
SetActive(name, active) ==
    /\ db[name] # <<>>
    /\ db[name][1].is_active # active
    /\ db' = [db EXCEPT ![name] = <<[db[name][1] EXCEPT !.is_active = active]>>]
    /\ UNCHANGED <<now, started, usage_commits, pc, header, client_name,
                   secret_key, client, pending, g_api_client, resp,
                   view_calls, lookups, exc>>
    /\ UNCHANGED log
    /\ UNCHANGED <<modelVars, run, otherVars>>

Next ==
    \/ \E w \in Workers, h \in HeaderInputs : Receive(w, h)
    \/ \E w \in Workers : LookupError(w)
    \/ \E w \in Workers : Reject(w)
    \/ \E w \in Workers : VerifyError(w)
    \/ \E w \in Workers : Admit(w)
    \/ \E w \in Workers : CommitOk(w)
    \/ \E w \in Workers : CommitError(w)
    \/ \E w \in Workers : UsageError(w)
    \/ \E w \in Workers : ViewReturns(w)
    \/ \E w \in Workers, kind \in {"view_storage", "view_other"} : ViewRaises(w, kind)
    \/ \E w \in Workers : Finish(w)
    \/ \E active \in BOOLEAN : SetActive(NameA, active)

Spec == Init /\ [][Next]_vars

(***************************************************************************)
(* The gate under every header value: one request at a time, client a      *)
(* holding the hash of a plain secret, of a secret with a dot in it, or a   *)
(* value that is not a hash.                                               *)
(***************************************************************************)
InitParse ==
    /\ \E hashed \in {hashpw(SecretS, "1"), hashpw(SecretDotted, "2"), CorruptSaltHash} :
          db = [n \in ClientNames |->
                  IF n = NameA THEN <<Row(NameA, hashed, TRUE)>> ELSE <<>>]
    /\ now = 1
    /\ started = 0
    /\ usage_commits = [n \in ClientNames |-> 0]
    /\ pc = [w \in Workers |-> "idle"]
    /\ header = [w \in Workers |-> <<>>]
    /\ client_name = [w \in Workers |-> <<>>]
    /\ secret_key = [w \in Workers |-> <<>>]
    /\ client = [w \in Workers |-> <<>>]
    /\ pending = [w \in Workers |-> <<>>]
    /\ g_api_client = [w \in Workers |-> <<>>]
    /\ resp = [w \in Workers |-> <<>>]
    /\ view_calls = [w \in Workers |-> 0]
    /\ lookups = [w \in Workers |-> 0]
    /\ exc = [w \in Workers |-> {}]
    /\ log = [w \in Workers |-> {}]
    /\ NoCaller
    /\ NoContent
    /\ NoConfig

NextParse ==
    \/ \E h \in AllHeaders : Receive(1, h)
    \/ LookupError(1)
    \/ Reject(1)
    \/ VerifyError(1)
    \/ Admit(1)
    \/ CommitOk(1)
    \/ CommitError(1)
    \/ UsageError(1)
    \/ ViewReturns(1)
    \/ \E kind \in {"view_storage", "view_other"} : ViewRaises(1, kind)
    \/ Finish(1)

SpecParse == InitParse /\ [][NextParse]_vars

(***************************************************************************)
(* The model class ApiClient (app/models/api_client.py) as its callers use *)
(* it: construct an object, name it, key it, check a key, add it to the    *)
(* session and commit.  An attribute that was never set is <<>>, a set one *)
(* is <<value>>.                                                           *)
(***************************************************************************)
NameEmpty == <<>>
NameDotted == <<"a", ".", "b">>

CallerNames == {NameA, NameB, NameEmpty, NameDotted}

\* generate_api_key: secrets.token_urlsafe(32) returns 43 characters, none of
\* them a dot; two such keys stand for them.
GeneratedKeys == {SecretS, SecretT}

\* Two secrets of 73 characters that differ in the last one only.
LongSecret(last) == [i \in 1..73 |-> IF i <= 72 THEN "x" ELSE last]

CallerSecrets == {SecretS, LongSecret("y"), LongSecret("z")}

\* Variant: the validator returns every name.
validate_name_any(name) == <<name>>

\* validate_name: the value it returns, <<>> when it raises ValueError.
validate_name(name) == IF HasDot(name) THEN <<>> ELSE <<name>>

\* __init__: only the arguments that are not None are set.
ApiClient(name, hashed_api_key, is_active) ==
    [name |-> name, hashed_api_key |-> hashed_api_key, is_active |-> is_active]

\* Variant: the key is stored as given.
set_api_key_plain(c, key, salt) == [c EXCEPT !.hashed_api_key = <<key>>]

\* set_api_key with the salt that bcrypt.gensalt() drew.
set_api_key(c, key, salt) == [c EXCEPT !.hashed_api_key = <<hashpw(key, salt)>>]

\* The outcome of c.check_api_key(key): "True", "False" or the exception it
\* raises (None has no encode; bcrypt refuses a value that is not a hash).
check_outcome(c, key) ==
    IF c.hashed_api_key = <<>> THEN "AttributeError"
    ELSE IF checkpw_raises(c.hashed_api_key[1]) THEN "ValueError"
    ELSE IF checkpw(key, c.hashed_api_key[1]) THEN "True" ELSE "False"

\* Variant: only the NOT NULL constraints are enforced.
violates_not_null(rows, c) == c.name = <<>> \/ c.hashed_api_key = <<>>

\* The INSERT of object c is refused (IntegrityError): name and
\* hashed_api_key are NOT NULL and UNIQUE (lines 26-31).
violates_constraints(rows, c) ==
    \/ c.name = <<>>
    \/ c.hashed_api_key = <<>>
    \/ \E r \in rows : r.name = c.name[1] \/ r.hashed_api_key = c.hashed_api_key[1]

next_id(rows) ==
    IF rows = {} THEN 1
    ELSE 1 + (CHOOSE i \in {r.id : r \in rows} : \A r \in rows : r.id <= i)

\* INSERT INTO api_clients: the primary key is generated and the column
\* defaults fill what the object left unset (lines 25-37).
\* Variant: a new row counts one use.
insert_used(rows, c) ==
    rows \cup {[id |-> next_id(rows),
                name |-> c.name[1],
                hashed_api_key |-> c.hashed_api_key[1],
                is_active |-> IF c.is_active = <<>> THEN TRUE ELSE c.is_active[1],
                created_at |-> <<now>>,
                last_used_at |-> NoTime,
                use_count |-> 1]}

insert(rows, c) ==
    rows \cup {[id |-> next_id(rows),
                name |-> c.name[1],
                hashed_api_key |-> c.hashed_api_key[1],
                is_active |-> IF c.is_active = <<>> THEN TRUE ELSE c.is_active[1],
                created_at |-> <<now>>,
                last_used_at |-> NoTime,
                use_count |-> 0]}

\* No request is being served.
NoRequest ==
    /\ now = 1
    /\ started = 0
    /\ usage_commits = [n \in ClientNames |-> 0]
    /\ pc = [w \in Workers |-> "idle"]
    /\ header = [w \in Workers |-> <<>>]
    /\ client_name = [w \in Workers |-> <<>>]
    /\ secret_key = [w \in Workers |-> <<>>]
    /\ client = [w \in Workers |-> <<>>]
    /\ pending = [w \in Workers |-> <<>>]
    /\ g_api_client = [w \in Workers |-> <<>>]
    /\ resp = [w \in Workers |-> <<>>]
    /\ view_calls = [w \in Workers |-> 0]
    /\ lookups = [w \in Workers |-> 0]
    /\ exc = [w \in Workers |-> {}]
    /\ log = [w \in Workers |-> {}]

\* ApiClient(name=..., hashed_api_key=...), either argument possibly left out.
Construct(name, hashed) ==
    /\ LET v == IF name = <<>> THEN <<>> ELSE validate_name(name[1]) IN
       IF name # <<>> /\ v = <<>>
       THEN /\ raised' = "ValueError"
            /\ UNCHANGED <<obj, plaintext>>
       ELSE /\ obj' = <<ApiClient(v, hashed, <<>>)>>
            /\ plaintext' = <<>>
            /\ raised' = ""
    /\ checked' = <<>>
    /\ UNCHANGED <<api_clients, gateVars, run, otherVars>>

\* ApiClient.create_with_api_key(name) with the key and the salt drawn.
CreateWithApiKey(name, key, salt) ==
    /\ LET v == validate_name(name) IN
       IF v = <<>>
       THEN /\ raised' = "ValueError"
            /\ UNCHANGED <<obj, plaintext>>
       ELSE /\ obj' = <<set_api_key(ApiClient(v, <<>>, <<TRUE>>), key, salt)>>
            /\ plaintext' = <<key>>
            /\ raised' = ""
    /\ checked' = <<>>
    /\ UNCHANGED <<api_clients, gateVars, run, otherVars>>

\* client.name = name on an existing object.
AssignName(name) ==
    /\ obj # <<>>
    /\ LET v == validate_name(name) IN
       IF v = <<>>
       THEN /\ raised' = "ValueError"
            /\ UNCHANGED obj
       ELSE /\ obj' = <<[obj[1] EXCEPT !.name = v]>>
            /\ raised' = ""
    /\ checked' = <<>>
    /\ UNCHANGED <<api_clients, plaintext, gateVars, run, otherVars>>

\* client.set_api_key(key)
SetApiKey(key, salt) ==
    /\ obj # <<>>
    /\ obj' = <<set_api_key(obj[1], key, salt)>>
    /\ plaintext' = <<key>>
    /\ raised' = ""
    /\ checked' = <<>>
    /\ UNCHANGED <<api_clients, gateVars, run, otherVars>>

\* client.check_api_key(key)
CheckApiKey(key) ==
    /\ obj # <<>>
    /\ LET outcome == check_outcome(obj[1], key) IN
          /\ checked' = <<key, outcome>>
          /\ raised' = IF outcome \in {"True", "False"} THEN "" ELSE outcome
    /\ UNCHANGED <<api_clients, obj, plaintext, gateVars, run, otherVars>>

\* db.session.add(client); db.session.commit(), and db.session.rollback()
\* when the commit raises IntegrityError; the caller then lets go of the object.
AddCommit ==
    /\ obj # <<>>
    /\ Cardinality(api_clients) < MaxClients
    /\ IF violates_constraints(api_clients, obj[1])
       THEN /\ raised' = "IntegrityError"
            /\ UNCHANGED api_clients
       ELSE /\ api_clients' = insert(api_clients, obj[1])
            /\ raised' = ""
    /\ obj' = <<>>
    /\ plaintext' = <<>>
    /\ checked' = <<>>
    /\ UNCHANGED <<gateVars, run, otherVars>>

InitClient ==
    /\ db = [n \in ClientNames |-> <<>>]
    /\ NoRequest
    /\ NoCaller
    /\ NoContent
    /\ NoConfig

NextClient ==
    \/ \E name \in {<<>>} \cup {<<n>> : n \in CallerNames},
          hashed \in {<<>>, <<CorruptSaltHash>>} : Construct(name, hashed)
    \/ \E name \in CallerNames, key \in GeneratedKeys, salt \in ValidSalts :
          CreateWithApiKey(name, key, salt)
    \/ \E name \in CallerNames : AssignName(name)
    \/ \E key \in CallerSecrets, salt \in ValidSalts : SetApiKey(key, salt)
    \/ \E key \in CallerSecrets : CheckApiKey(key)

SpecClient == InitClient /\ [][NextClient]_vars

\* Callers that create clients and store them.
NextStore ==
    \/ \E name \in {<<>>} \cup {<<n>> : n \in CallerNames},
          hashed \in {<<>>, <<CorruptSaltHash>>} : Construct(name, hashed)
    \/ \E name \in CallerNames, key \in GeneratedKeys, salt \in ValidSalts :
          CreateWithApiKey(name, key, salt)
    \/ \E key \in CallerSecrets, salt \in ValidSalts : SetApiKey(key, salt)
    \/ AddCommit

SpecStore == InitClient /\ [][NextStore]_vars

(***************************************************************************)
(* generate_api_key.py: runs of the command line, each with its own        *)
(* session on the shared table, next to a caller that creates and stores   *)
(* clients itself.                                                         *)
(***************************************************************************)
CliNames == {NameA, NameC, NameEmpty, NameDotted}

\* The run returns status before it has created anything.
Exit(p, name, status) ==
    run' = [run EXCEPT ![p] = [@ EXCEPT !.pc = "exit",
                                        !.client_name = <<name>>,
                                        !.status = <<status>>]]

\* Variant: the run does not look the name up before it creates the client.
CliCheckNoLookup(p, name, key, salt) ==
    /\ run[p].pc = "idle"
    /\ IF name = <<>> THEN Exit(p, name, 1)
       ELSE IF HasDot(name) THEN Exit(p, name, 1)
       ELSE IF validate_name(name) = <<>> THEN Exit(p, name, 1)
       ELSE run' = [run EXCEPT ![p] =
                      [@ EXCEPT !.pc = "insert",
                                !.client_name = <<name>>,
                                !.new_client =
                                    <<set_api_key(ApiClient(validate_name(name), <<>>, <<TRUE>>),
                                                  key, salt)>>,
                                !.api_key = <<key>>]]
    /\ UNCHANGED <<gateVars, modelVars, otherVars>>

\* main (lines 64-67) and generate_key up to the creation of the object
\* (lines 19-37): the empty name, the dot, the existence check, and
\* create_with_api_key with the key and the salt drawn.
CliCheck(p, name, key, salt) ==
    /\ run[p].pc = "idle"
    /\ IF name = <<>> THEN Exit(p, name, 1)
       ELSE IF HasDot(name) THEN Exit(p, name, 1)
       ELSE IF \E r \in api_clients : r.name = name THEN Exit(p, name, 1)
       ELSE IF validate_name(name) = <<>> THEN Exit(p, name, 1)
       ELSE run' = [run EXCEPT ![p] =
                      [@ EXCEPT !.pc = "insert",
                                !.client_name = <<name>>,
                                !.new_client =
                                    <<set_api_key(ApiClient(validate_name(name), <<>>, <<TRUE>>),
                                                  key, salt)>>,
                                !.api_key = <<key>>]]
    /\ UNCHANGED <<gateVars, modelVars, otherVars>>

\* Lines 39-51: add, commit, print the full key and return 0.  An
\* IntegrityError of the commit is not caught: the run ends with the
\* traceback and status 1, and its transaction is never committed.
CliCommit(p) ==
    /\ run[p].pc = "insert"
    /\ IF violates_constraints(api_clients, run[p].new_client[1])
       THEN /\ run' = [run EXCEPT ![p] = [@ EXCEPT !.pc = "exit",
                                                   !.raised = "IntegrityError",
                                                   !.status = <<1>>]]
            /\ UNCHANGED api_clients
       ELSE /\ api_clients' = insert(api_clients, run[p].new_client[1])
            /\ run' = [run EXCEPT ![p] =
                         [@ EXCEPT !.pc = "exit",
                                   !.status = <<0>>,
                                   !.printed = <<Credential(run[p].new_client[1].name[1],
                                                            run[p].api_key[1])>>]]
    /\ UNCHANGED <<gateVars, obj, plaintext, raised, checked, otherVars>>

\* The table holds the client a that an earlier run created.
InitKeygen ==
    /\ db = [n \in ClientNames |-> <<>>]
    /\ NoRequest
    /\ api_clients = insert({}, set_api_key(ApiClient(<<NameA>>, <<>>, <<TRUE>>), SecretS, "1"))
    /\ obj = <<>>
    /\ plaintext = <<>>
    /\ raised = ""
    /\ checked = <<>>
    /\ run = [p \in Runs |-> IdleRun]
    /\ NoContent
    /\ NoConfig

NextKeygen ==
    \/ \E p \in Runs, name \in CliNames, key \in GeneratedKeys, salt \in ValidSalts :
          CliCheck(p, name, key, salt)
    \/ \E p \in Runs : CliCommit(p)
    \/ \E name \in {NameA, NameC}, key \in GeneratedKeys, salt \in ValidSalts :
          CreateWithApiKey(name, key, salt)
    \/ AddCommit

SpecKeygen == InitKeygen /\ [][NextKeygen]_vars

TypeOK ==
    /\ now \in 1..(MaxRequests + 1)
    /\ started \in 0..MaxRequests
    /\ \A w \in Workers : pc[w] \in {"idle", "lookup", "commit", "view", "done"}

(***************************************************************************)
(* Properties.                                                             *)
(***************************************************************************)
Quiescent == \A w \in Workers : pc[w] \in {"idle", "done"}

Stored(table, n) == n \in DOMAIN table /\ table[n] # <<>>

UsageStats(table) ==
    [n \in ClientNames |->
        IF table[n] = <<>> THEN <<>>
        ELSE <<table[n][1].use_count, table[n][1].last_used_at>>]

\* Worker w takes the step of lines 90-112 and the lookup itself returns.
LookupReturns(w) == pc[w] = "lookup" /\ pc'[w] # "lookup" /\ "lookup" \notin exc'[w]

\* A stored string that bcrypt accepts as a hash, and one that is a hash of
\* the secret s (s no longer than bcrypt reads).
WellFormedHash(hashed) ==
    Len(hashed) >= 2 /\ hashed[1] = "$" /\ hashed[2] \in ValidSalts

IsHashOf(hashed, s) == \E salt \in ValidSalts : hashed = <<"$", salt>> \o s

UnknownName(table, n) == ~Stored(table, n)

InactiveClient(table, n) == Stored(table, n) /\ ~table[n][1].is_active

SecretMatches(table, n, s) ==
    /\ Stored(table, n)
    /\ IsHashOf(table[n][1].hashed_api_key, s)

WrongSecret(table, n, s) ==
    /\ Stored(table, n)
    /\ table[n][1].is_active
    /\ WellFormedHash(table[n][1].hashed_api_key)
    /\ ~IsHashOf(table[n][1].hashed_api_key, s)

\* C1: when K requests with one client's valid credential have all committed
\* their usage update, the stored use_count is exactly K higher than at the
\* start (it starts at 0): no increment is lost.
C1_NoLostIncrement ==
    Quiescent =>
        \A n \in ClientNames :
            Stored(db, n) => db[n][1].use_count = usage_commits[n]

\* C2: the stored use_count of a client never becomes smaller than it was.
C2_UseCountNeverDecreases ==
    [][\A n \in ClientNames :
          (Stored(db, n) /\ Stored(db', n)) =>
              db'[n][1].use_count >= db[n][1].use_count]_vars

\* C3: every step of a request that is not admitted (rejected for an unknown
\* name, an inactive client or a wrong secret) leaves use_count and
\* last_used_at of every client unchanged.
C3_RejectionLeavesUsage ==
    [][\A w \in Workers :
          (/\ pc[w] \in {"idle", "lookup"}
           /\ pc'[w] # pc[w]
           /\ g_api_client'[w] = <<>>)
          => UsageStats(db') = UsageStats(db)]_vars

C3_Witness ==
    \E w \in Workers :
        /\ pc[w] = "done"
        /\ resp[w] = <<InvalidOrInactive>>
        /\ header[w] = <<Credential(NameA, SecretT)>>
        /\ client[w] # <<>>

\* C4: a request that names an inactive client and carries its correct
\* secret is answered 401 "Invalid or inactive API key"; the view is not
\* called and g.api_client is not set.
C4_InactiveRejected ==
    [][\A w \in Workers :
          (/\ LookupReturns(w)
           /\ InactiveClient(db, client_name[w])
           /\ SecretMatches(db, client_name[w], secret_key[w]))
          => (/\ pc'[w] = "done"
              /\ resp'[w] = <<InvalidOrInactive>>
              /\ view_calls'[w] = 0
              /\ g_api_client'[w] = <<>>)]_vars

C4_Witness ==
    \E w \in Workers :
        /\ pc[w] = "done"
        /\ header[w] = <<Credential(NameA, SecretS)>>
        /\ InactiveClient(db, NameA)
        /\ SecretMatches(db, NameA, SecretS)
        /\ resp[w] = <<InvalidOrInactive>>
        /\ lookups[w] = 1

\* C5: for a well-formed credential the response is the same 401
\* "Authentication failed" / "Invalid or inactive API key" whether the name
\* is unknown, the client is inactive, or the client is active and the
\* secret is wrong.
C5_UniformRejection ==
    [][\A w \in Workers :
          (/\ LookupReturns(w)
           /\ \/ UnknownName(db, client_name[w])
              \/ InactiveClient(db, client_name[w])
              \/ WrongSecret(db, client_name[w], secret_key[w]))
          => (pc'[w] = "done" /\ resp'[w] = <<InvalidOrInactive>>)]_vars

C5_Witness ==
    \E w1, w2 \in Workers :
        /\ pc[w1] = "done" /\ pc[w2] = "done"
        /\ header[w1] = <<Credential(NameC, SecretS)>>
        /\ header[w2] = <<Credential(NameA, SecretT)>>
        /\ client[w2] # <<>>
        /\ resp[w1] = resp[w2]
        /\ resp[w1] = <<InvalidOrInactive>>

\* C6: a request rejected at the extract, parse, lookup, active-check or
\* verify step never has the view called nor g.api_client set; the view is
\* reached only by a request whose lookup returned an active client of the
\* presented name whose stored key verifies the presented secret.
GateRejections == {KeyRequired, InvalidFormat, MalformedKey, InvalidOrInactive}

C6_ViewOnlyAfterVerify ==
    \A w \in Workers :
        /\ (/\ pc[w] = "done"
            /\ \/ resp[w][1] \in GateRejections
               \/ exc[w] \cap {"lookup", "verify"} # {})
           => (view_calls[w] = 0 /\ g_api_client[w] = <<>>)
        /\ (pc[w] = "view" \/ view_calls[w] > 0 \/ g_api_client[w] # <<>>)
           => (/\ client[w] # <<>>
               /\ client[w][1].name = client_name[w]
               /\ client[w][1].is_active
               /\ IsHashOf(client[w][1].hashed_api_key, secret_key[w])
               /\ g_api_client[w] = <<client_name[w]>>)

C6_Witness ==
    \E w1, w2 \in Workers :
        /\ pc[w1] = "done" /\ resp[w1] = <<InvalidOrInactive>> /\ view_calls[w1] = 0
        /\ pc[w2] = "done" /\ resp[w2] = <<ViewResponse>> /\ view_calls[w2] = 1

C8_LookupErrorUnavailable ==
    /\ [](\A w \in Workers :
            "lookup" \in exc[w] =>
                /\ pc[w] = "done"
                /\ resp[w] = <<ServiceUnavailable>>
                /\ view_calls[w] = 0
                /\ g_api_client[w] = <<>>)
    /\ [][\A w \in Workers :
            ("lookup" \in exc'[w] /\ "lookup" \notin exc[w]) => db' = db]_vars

C8_Witness ==
    \E w \in Workers :
        /\ pc[w] = "done"
        /\ exc[w] = {"lookup"}
        /\ resp[w] = <<ServiceUnavailable>>

\* C9: a request for an active client whose stored hashed key is not a
\* valid hash is answered 401 "Invalid or inactive API key", not a 500.
C9_CorruptHashRejected ==
    \A w \in Workers :
        (/\ pc[w] = "done"
         /\ client[w] # <<>>
         /\ ~WellFormedHash(client[w][1].hashed_api_key))
        => resp[w] = <<InvalidOrInactive>>

\* C10: the header is classified in a fixed order, each with status 401:
\* absent or empty -> "API key is required"; no '.' -> "Invalid API key
\* format"; nothing before or after the first '.' -> "Malformed API key";
\* the answer is given without any client lookup, whatever the table holds.
FormatRejected(w, r) ==
    pc[w] = "done" /\ resp[w] = <<r>> /\ r.status = 401 /\ lookups[w] = 0
    /\ view_calls[w] = 0

EmptyPart(s) ==
    \/ s[1] = "."
    \/ s[Len(s)] = "." /\ \A j \in 1..(Len(s) - 1) : s[j] # "."

C11_SplitAtFirstDot ==
    /\ [](\A w \in Workers :
            header[w] # <<>> /\ HasDot(header[w][1])
            => /\ ~HasDot(client_name[w])
               /\ client_name[w] \o <<".">> \o secret_key[w] = header[w][1])
    /\ [][\A w \in Workers :
            pc[w] = "lookup" /\ Stored(db, client_name[w])
            => /\ pc'[w] = "commit"
                  => IsHashOf(db[client_name[w]][1].hashed_api_key, secret_key[w])
               /\ resp'[w] = <<InvalidOrInactive>>
                  => ~IsHashOf(db[client_name[w]][1].hashed_api_key, secret_key[w])]_vars

\* A request carrying a.s.s is admitted for client a whose key is s.s.
C11_Witness ==
    \E w \in Workers :
        /\ pc[w] = "view"
        /\ header[w] = <<Credential(NameA, SecretDotted)>>
        /\ secret_key[w] = SecretDotted
        /\ g_api_client[w] = <<NameA>>

(***************************************************************************)
(* C12                                                                     *)
(***************************************************************************)
\* The step is a call that sets the name n: by the constructor, by
\* create_with_api_key or by assignment.
SetsName(n) ==
    \/ \E hashed \in {<<>>, <<CorruptSaltHash>>} : Construct(<<n>>, hashed)
    \/ \E key \in GeneratedKeys, salt \in ValidSalts : CreateWithApiKey(n, key, salt)
    \/ AssignName(n)

\* C12: no ApiClient object holds a name with a dot; a call that sets a name
\* with a dot (constructor, create_with_api_key, assignment) raises
\* ValueError and leaves the caller's object, its name included, as it was;
\* a call that sets a name without a dot raises nothing and the object then
\* has that name.
C12_NoDottedName ==
    /\ [](obj # <<>> /\ obj[1].name # <<>> => ~HasDot(obj[1].name[1]))
    /\ [][\A n \in CallerNames :
            SetsName(n)
            => IF HasDot(n)
               THEN raised' = "ValueError" /\ obj' = obj
               ELSE raised' = "" /\ obj' # <<>> /\ obj'[1].name = <<n>>]_vars

\* A name with a dot was refused while the caller holds an object named a.
C12_Witness ==
    /\ raised = "ValueError"
    /\ checked = <<>>
    /\ obj # <<>>
    /\ obj[1].name = <<NameA>>

(***************************************************************************)
(* C13                                                                     *)
(***************************************************************************)
\* C13: no ApiClient object and no stored client has the empty name.
C13_NoEmptyName ==
    /\ obj # <<>> => obj[1].name # <<NameEmpty>>
    /\ \A r \in api_clients : r.name # NameEmpty

(***************************************************************************)
(* C14                                                                     *)
(***************************************************************************)
\* C14: no two stored clients share a name; a commit of a new client whose
\* name is already stored, by a run of the command line or by another
\* caller, raises IntegrityError and leaves the table as it was, and a
\* commit of a run that succeeds adds one row and changes no other.
C14_UniqueNames ==
    /\ [](\A r1, r2 \in api_clients : r1.name = r2.name => r1 = r2)
    /\ [][\A p \in Runs :
            CliCommit(p)
            => IF \E r \in api_clients : r.name = run[p].client_name[1]
               THEN /\ run'[p].raised = "IntegrityError"
                    /\ api_clients' = api_clients
               ELSE /\ api_clients \subseteq api_clients'
                    /\ Cardinality(api_clients') <= Cardinality(api_clients) + 1]_vars
    /\ [][AddCommit /\ obj[1].name # <<>>
                    /\ (\E r \in api_clients : <<r.name>> = obj[1].name)
          => raised' = "IntegrityError" /\ api_clients' = api_clients]_vars

\* Two runs for the same new name both passed the existence check; one
\* stored the client and the other ended with IntegrityError.
C14_Witness ==
    \E p, q \in Runs :
        /\ run[p].raised = "IntegrityError"
        /\ run[q].status = <<0>>
        /\ run[p].client_name = run[q].client_name
        /\ Cardinality({r \in api_clients : <<r.name>> = run[p].client_name}) = 1

(***************************************************************************)
(* C15                                                                     *)
(***************************************************************************)
\* C15: when the object's key was set from a plaintext secret, a call of
\* check_api_key returns True for that secret and False for every other.
C15_OnlyTheSecretVerifies ==
    plaintext # <<>> /\ checked # <<>>
    => checked[2] = (IF checked[1] = plaintext[1] THEN "True" ELSE "False")

(***************************************************************************)
(* C16                                                                     *)
(***************************************************************************)
\* C16: no stored client holds a plaintext secret in name or hashed_api_key;
\* an object keyed by set_api_key or create_with_api_key has a
\* hashed_api_key, and neither it nor the name is the plaintext; the
\* plaintext is with the caller only.
C16_NoPlaintextStored ==
    /\ \A r \in api_clients, k \in GeneratedKeys \cup CallerSecrets :
          r.hashed_api_key # k /\ r.name # k
    /\ obj # <<>> /\ plaintext # <<>>
       => /\ obj[1].hashed_api_key # <<>>
          /\ obj[1].hashed_api_key # plaintext
          /\ obj[1].name # plaintext

\* A client keyed with s is stored, and the caller holds another one that
\* create_with_api_key or set_api_key has just keyed.
C16_Witness ==
    /\ \E r \in api_clients : IsHashOf(r.hashed_api_key, SecretS)
    /\ obj # <<>>
    /\ plaintext # <<>>

(***************************************************************************)
(* C17                                                                     *)
(***************************************************************************)
\* The text s occurs in the text t.
Contains(t, s) == \E i \in 1..(Len(t) - Len(s) + 1) : SubSeq(t, i, i + Len(s) - 1) = s

\* C17: no argument of a log record emitted during a request contains the
\* secret part of the header of that request, on any path.
C17_NoSecretInLog ==
    \A w \in Workers :
        secret_key[w] # <<>>
        => \A rec \in log[w] : \A i \in 1..Len(rec.args) :
               ~Contains(rec.args[i], secret_key[w])

\* One request with secret s has logged its success while another with
\* secret t has logged its rejection.
C17_Witness ==
    \E w1, w2 \in Workers :
        /\ secret_key[w1] = SecretS
        /\ \E rec \in log[w1] : rec.level = "info"
        /\ secret_key[w2] = SecretT
        /\ \E rec \in log[w2] : rec.level = "warning"

(***************************************************************************)
(* C18                                                                     *)
(***************************************************************************)
\* C18: a request whose lookup returns, for a stored active client and the
\* secret of its hash, is admitted: g.api_client is that client and the view
\* has not started; the view starts only with g.api_client set; when the
\* view returns, its response is the response of the request; and when the
\* commit succeeds on a row whose use_count is still the one the request
\* loaded, use_count becomes one higher and last_used_at is not null.
C18_CorrectKeyAdmitted ==
    /\ [](\A w \in Workers :
            /\ pc[w] = "view" => g_api_client[w] = <<client_name[w]>> /\ view_calls[w] = 0
            /\ pc[w] = "done" /\ view_calls[w] = 1 /\ exc[w] \subseteq {"commit"}
               => resp[w] = <<Response(200, "", "success")>>)
    /\ [][\A w \in Workers :
            LookupReturns(w) /\ Stored(db, client_name[w])
            /\ db[client_name[w]][1].is_active
            /\ SecretMatches(db, client_name[w], secret_key[w])
            => /\ pc'[w] = "commit"
               /\ g_api_client'[w] = <<client_name[w]>>
               /\ view_calls'[w] = 0]_vars
    /\ [][\A w \in Workers :
            pc[w] = "commit" /\ pc'[w] = "view" /\ "commit" \notin exc'[w]
            /\ db[client_name[w]][1].use_count = client[w][1].use_count
            => /\ db'[client_name[w]][1].use_count = db[client_name[w]][1].use_count + 1
               /\ db'[client_name[w]][1].last_used_at # NoTime]_vars

\* The first request ever, for client a with its secret, has returned the
\* view's response, and a has been used once.
C18_Witness ==
    \E w \in Workers :
        /\ pc[w] = "done"
        /\ started = 1
        /\ header[w] = <<Credential(NameA, SecretS)>>
        /\ resp[w] = <<ViewResponse>>
        /\ db[NameA][1].use_count = 1
        /\ db[NameA][1].last_used_at # NoTime

(***************************************************************************)
(* C19                                                                     *)
(***************************************************************************)
\* The header is missing or empty, has no dot, or has an empty part.
Malformed(h) ==
    \/ h = <<>>
    \/ h[1] = <<>>
    \/ ~HasDot(h[1])
    \/ EmptyPart(h[1])

C20_VerifyErrorServiceError ==
    /\ [](\A w \in Workers :
            "verify" \in exc[w] =>
                /\ pc[w] = "done"
                /\ resp[w] = <<Response(500, "Authentication service error",
                                        "Please try again later")>>
                /\ view_calls[w] = 0
                /\ g_api_client[w] = <<>>
                /\ pending[w] = <<>>)
    /\ [][\A w \in Workers :
            ("verify" \in exc'[w] /\ "verify" \notin exc[w])
            => db' = db /\ usage_commits' = usage_commits]_vars

C20_Witness ==
    \E w \in Workers :
        /\ pc[w] = "done"
        /\ exc[w] = {"verify"}
        /\ client[w] # <<>>
        /\ resp[w] = <<ServiceError>>


(***************************************************************************)
(* C21                                                                     *)
(***************************************************************************)
\* C21: a request is answered with 500 "Authentication service unavailable"
\* or "Authentication service error" only when its lookup or its
\* check_api_key raised; an exception of the wrapped view of an admitted
\* request is not answered so.
C21_ServiceFailureOnlyFromGate ==
    \A w \in Workers :
        pc[w] = "done" /\ resp[w] \in {<<ServiceUnavailable>>, <<ServiceError>>}
        => /\ exc[w] \cap {"lookup", "verify"} # {}
           /\ view_calls[w] = 0


(***************************************************************************)
(* Source, Topic and Article (app/models/source.py, topic.py, article.py). *)
(* Every operation is one committed transaction of one session.  The       *)
(* foreign keys of articles are declared without ondelete; whether an      *)
(* INSERT whose source_id or topic_id names no stored row fails depends on *)
(* the database of the deployment: PostgreSQL enforces foreign keys,       *)
(* SQLite (the default of TestingConfig) does not unless PRAGMA            *)
(* foreign_keys is set, which the repository never does.  The rows carry   *)
(* the columns the relationships use.                                      *)
(***************************************************************************)
MaxUuids == 4

\* default=uuid.uuid4: a primary key that no row had before.
uuid4 == uuids + 1

\* The values a caller can pass as a foreign key: none, or any key drawn so far.
ParentIds == {<<>>} \cup {<<i>> : i \in 1..uuids}

\* Article.__init__: the foreign keys are kept as passed.
Article(id, source_id, topic_id) ==
    [id |-> id, source_id |-> source_id, topic_id |-> topic_id]

\* ForeignKey("sources.id") and ForeignKey("topics.id"), both nullable.
foreign_keys_hold(a) ==
    /\ a.source_id = <<>> \/ a.source_id[1] \in sources
    /\ a.topic_id = <<>> \/ a.topic_id[1] \in topics

\* A delete that leaves the articles of the parent in the table.
source_articles_kept(rows, id) == {}

\* Source.articles with cascade="all, delete-orphan": the articles of the
\* source, which session.delete(source) deletes with it.
source_articles(rows, id) == {a \in rows : a.source_id = <<id>>}

\* Topic.articles with cascade="all, delete-orphan".
topic_articles(rows, id) == {a \in rows : a.topic_id = <<id>>}

\* db.session.add(Source(...)); db.session.commit()
CreateSource ==
    /\ uuids < MaxUuids
    /\ sources' = sources \cup {uuid4}
    /\ uuids' = uuid4
    /\ UNCHANGED <<topics, articles, deleted, cascaded, enforce_fk>>
    /\ UNCHANGED <<gateVars, modelVars, run, configVars>>

\* db.session.add(Topic(...)); db.session.commit()
CreateTopic ==
    /\ uuids < MaxUuids
    /\ topics' = topics \cup {uuid4}
    /\ uuids' = uuid4
    /\ UNCHANGED <<sources, articles, deleted, cascaded, enforce_fk>>
    /\ UNCHANGED <<gateVars, modelVars, run, configVars>>

\* db.session.add(Article(..., source_id, topic_id)); db.session.commit():
\* where foreign keys are enforced the commit raises IntegrityError and
\* stores nothing when a foreign key names no stored row.
CreateArticle(source_id, topic_id) ==
    /\ uuids < MaxUuids
    /\ LET a == Article(uuid4, source_id, topic_id)
       IN  articles' = IF enforce_fk /\ ~foreign_keys_hold(a)
                       THEN articles
                       ELSE articles \cup {a}
    /\ uuids' = uuid4
    /\ UNCHANGED <<sources, topics, deleted, cascaded, enforce_fk>>
    /\ UNCHANGED <<gateVars, modelVars, run, configVars>>

\* db.session.delete(source); db.session.commit()
DeleteSource(id) ==
    /\ id \in sources
    /\ sources' = sources \ {id}
    /\ articles' = articles \ source_articles(articles, id)
    /\ deleted' = deleted \cup {id}
    /\ cascaded' = source_articles(articles, id)
    /\ UNCHANGED <<topics, uuids, enforce_fk>>
    /\ UNCHANGED <<gateVars, modelVars, run, configVars>>

\* db.session.delete(topic); db.session.commit()
DeleteTopic(id) ==
    /\ id \in topics
    /\ topics' = topics \ {id}
    /\ articles' = articles \ topic_articles(articles, id)
    /\ deleted' = deleted \cup {id}
    /\ cascaded' = topic_articles(articles, id)
    /\ UNCHANGED <<sources, uuids, enforce_fk>>
    /\ UNCHANGED <<gateVars, modelVars, run, configVars>>

\* db.session.delete(article); db.session.commit()
DeleteArticle(a) ==
    /\ a \in articles
    /\ articles' = articles \ {a}
    /\ UNCHANGED <<sources, topics, uuids, deleted, cascaded, enforce_fk>>
    /\ UNCHANGED <<gateVars, modelVars, run, configVars>>

InitContent ==
    /\ db = [n \in ClientNames |-> <<>>]
    /\ NoRequest
    /\ NoCaller
    /\ sources = {}
    /\ topics = {}
    /\ articles = {}
    /\ uuids = 0
    /\ deleted = {}
    /\ cascaded = {}
    /\ enforce_fk \in BOOLEAN
    /\ NoConfig

NextContent ==
    \/ CreateSource
    \/ CreateTopic
    \/ \E source_id \in ParentIds, topic_id \in ParentIds : CreateArticle(source_id, topic_id)
    \/ \E id \in sources : DeleteSource(id)
    \/ \E id \in topics : DeleteTopic(id)
    \/ \E a \in articles : DeleteArticle(a)

SpecContent == InitContent /\ [][NextContent]_vars


\* C22: the delete of a Source or Topic removes every Article that
\* references it, and no stored Article has a source_id or topic_id that
\* names a deleted Source or Topic.
C22_CascadeDelete ==
    /\ [](\A a \in articles :
            /\ a.source_id # <<>> => a.source_id[1] \notin deleted
            /\ a.topic_id # <<>> => a.topic_id[1] \notin deleted)
    /\ [][/\ \A id \in sources : DeleteSource(id) =>
                \A a \in articles : a.source_id = <<id>> => a \notin articles'
          /\ \A id \in topics : DeleteTopic(id) =>
                \A a \in articles : a.topic_id = <<id>> => a \notin articles']_vars

\* C22 amended: the delete of a Source or Topic removes every Article that
\* references it at that moment; where the database enforces foreign keys,
\* every source_id and topic_id of a stored Article names a stored parent,
\* so none names a deleted one.
C22_CascadeDeleteEnforced ==
    /\ [](enforce_fk =>
            \A a \in articles :
                /\ a.source_id # <<>> => a.source_id[1] \notin deleted /\ a.source_id[1] \in sources
                /\ a.topic_id # <<>> => a.topic_id[1] \notin deleted /\ a.topic_id[1] \in topics)
    /\ [][/\ \A id \in sources : DeleteSource(id) =>
                /\ \A a \in articles : a.source_id = <<id>> => a \notin articles'
                /\ \A a \in articles' : a.source_id # <<id>>
          /\ \A id \in topics : DeleteTopic(id) =>
                /\ \A a \in articles : a.topic_id = <<id>> => a \notin articles'
                /\ \A a \in articles' : a.topic_id # <<id>>]_vars

\* With foreign keys enforced, the delete of a parent took an Article with
\* it while another Article, which references a stored Source, stays.
C22_Witness ==
    /\ enforce_fk
    /\ cascaded # {}
    /\ deleted # {}
    /\ \E a \in articles : a.source_id # <<>>


(***************************************************************************)
(* Creation followed by requests (tests/test_auth.py lines 176-195): a     *)
(* caller creates clients with create_with_api_key, stores them, and one   *)
(* request at a time presents a credential built from a name and a         *)
(* generated key.  Every stored hash comes from set_api_key here, so       *)
(* check_api_key does not raise.                                           *)
(***************************************************************************)
LifeNames == {NameA, NameEmpty}

LifeHeaders == {<<Credential(n, k)>> : n \in LifeNames \cup {NameDotted}, k \in GeneratedKeys}

\* The row of the gate's table for a stored row of creation: the same columns.
table_row(r) ==
    [name |-> r.name, hashed_api_key |-> r.hashed_api_key, is_active |-> r.is_active,
     created_at |-> r.created_at, last_used_at |-> r.last_used_at,
     use_count |-> r.use_count]

table_rows(table) == {table[n][1] : n \in {m \in DOMAIN table : table[m] # <<>>}}

\* client, api_key = ApiClient.create_with_api_key(name);
\* db.session.add(client); db.session.commit(), with the rollback when the
\* commit raises IntegrityError for a name or a hash that is stored already;
\* the caller then lets go of the object and of the key.
CreateAndStore(name, key, salt) ==
    /\ LET v == validate_name(name) IN
       IF v = <<>>
       THEN /\ raised' = "ValueError"
            /\ UNCHANGED <<db, obj, plaintext>>
       ELSE LET c == set_api_key(ApiClient(v, <<>>, <<TRUE>>), key, salt) IN
            /\ obj' = <<>>
            /\ plaintext' = <<>>
            /\ IF \E r \in table_rows(db) :
                     r.name = name \/ r.hashed_api_key = c.hashed_api_key[1]
               THEN /\ raised' = "IntegrityError"
                    /\ UNCHANGED db
               ELSE /\ raised' = ""
                    /\ db' = [db EXCEPT ![name] =
                                <<table_row(CHOOSE r \in insert({}, c) : TRUE)>>]
    /\ checked' = <<>>
    /\ UNCHANGED <<now, started, usage_commits, pc, header, client_name,
                   secret_key, client, pending, g_api_client, resp,
                   view_calls, lookups, exc, log>>
    /\ UNCHANGED <<api_clients, run, otherVars>>

InitLife ==
    /\ db = [n \in LifeNames |-> <<>>]
    /\ now = 1
    /\ started = 0
    /\ usage_commits = [n \in LifeNames |-> 0]
    /\ pc = [w \in Workers |-> "idle"]
    /\ header = [w \in Workers |-> <<>>]
    /\ client_name = [w \in Workers |-> <<>>]
    /\ secret_key = [w \in Workers |-> <<>>]
    /\ client = [w \in Workers |-> <<>>]
    /\ pending = [w \in Workers |-> <<>>]
    /\ g_api_client = [w \in Workers |-> <<>>]
    /\ resp = [w \in Workers |-> <<>>]
    /\ view_calls = [w \in Workers |-> 0]
    /\ lookups = [w \in Workers |-> 0]
    /\ exc = [w \in Workers |-> {}]
    /\ log = [w \in Workers |-> {}]
    /\ NoCaller
    /\ NoContent
    /\ NoConfig

NextLife ==
    \/ \E name \in LifeNames \cup {NameDotted}, key \in GeneratedKeys :
          CreateAndStore(name, key, "1")
    \/ \E h \in LifeHeaders : Receive(1, h)
    \/ LookupError(1)
    \/ Reject(1)
    \/ Admit(1)
    \/ CommitOk(1)
    \/ CommitError(1)
    \/ UsageError(1)
    \/ ViewReturns(1)
    \/ \E kind \in {"view_storage", "view_other"} : ViewRaises(1, kind)
    \/ Finish(1)

SpecLife == InitLife /\ [][NextLife]_vars

\* The columns of a row that creation with default arguments fills by default.
StartsFresh(r) ==
    /\ r.is_active = TRUE
    /\ r.use_count = 0
    /\ r.last_used_at = NoTime
    /\ r.created_at # <<>>

\* C23: a client created by create_with_api_key with default arguments and
\* stored starts active, with use_count 0, no last_used_at and a created_at;
\* its use_count and last_used_at keep these values as long as no request
\* that verified its key has committed its usage.
C23_FreshClientDefaults ==
    /\ [][\A n \in LifeNames :
            db[n] = <<>> /\ db'[n] # <<>> => StartsFresh(db'[n][1])]_vars
    /\ [](\A n \in LifeNames :
            db[n] # <<>> /\ usage_commits[n] = 0
            => db[n][1].use_count = 0 /\ db[n][1].last_used_at = NoTime)

\* A client stored after an earlier request was refused with a wrong key
\* and still has its defaults.
C23_Witness ==
    /\ db[NameA] # <<>> /\ StartsFresh(db[NameA][1])
    /\ db[NameA][1].created_at = <<1>>
    /\ started = 2
    /\ pc[1] = "done" /\ resp[1] = <<InvalidOrInactive>> /\ lookups[1] = 1
    /\ client[1] # <<>>


(***************************************************************************)
(* Configuration validation (app/validators.py).  A configuration object   *)
(* carries the fields drawn below; an unset field (None) and the empty     *)
(* string are one value, "", as every test of the validator reads them    *)
(* with "not value".  The fields that are not drawn keep the values of     *)
(* BaseConfig, for which the checks of lines 146-165 and 203-210 record    *)
(* nothing.  Warnings do not change how validate_all ends and are left     *)
(* out.                                                                    *)
(***************************************************************************)
Unset == ""

SecretKeys == {Unset, "secret", "Secret", "sixteen-chars-ok",
               "dev-secret-key-change-in-production"}

DatabaseUris == {Unset, "sqlite:///test.db", "postgresql://user@host/db", "not-a-uri"}

JwtSecretKeys == {Unset, "secret", "jwt-secret-key"}

JwtAlgorithms == {"HS256", "none"}

LogLevels == {"INFO", "LOUD"}

ConfigInputs ==
    [DEBUG : BOOLEAN, TESTING : BOOLEAN, SECRET_KEY : SecretKeys,
     SQLALCHEMY_DATABASE_URI : DatabaseUris, JWT_SECRET_KEY : JwtSecretKeys,
     JWT_ALGORITHM : JwtAlgorithms, LOG_LEVEL : LogLevels]

\* self.errors.append(...): the message and the values it names.
Error(message, args) == [message |-> message, args |-> args]

\* str.lower() on the secrets drawn.
lower(s) == IF s = "Secret" THEN "secret" ELSE s

\* urlparse(uri).scheme and urlparse(uri).hostname on the URIs drawn.
url_scheme(uri) ==
    IF uri = "sqlite:///test.db" THEN "sqlite"
    ELSE IF uri = "postgresql://user@host/db" THEN "postgresql"
    ELSE ""

url_hostname(uri) == IF uri = "postgresql://user@host/db" THEN "host" ELSE ""

\* Lines 227-244.
is_valid_database_uri(uri) ==
    url_scheme(uri) # "" /\ (url_hostname(uri) # "" \/ uri = "sqlite:///test.db")

\* Lines 83-100.
validate_required_fields(c) ==
    LET required == {"SECRET_KEY", "SQLALCHEMY_DATABASE_URI"}
                    \cup (IF ~c.DEBUG THEN {"JWT_SECRET_KEY"} ELSE {})
        missing == {f \in required : c[f] = Unset}
    IN  IF missing # {}
        THEN {Error("Missing required configuration fields", missing)}
        ELSE {}

\* Lines 102-124.
validate_database_config(c) ==
    IF c.SQLALCHEMY_DATABASE_URI = Unset
    THEN {Error("SQLALCHEMY_DATABASE_URI is required", {})}
    ELSE IF ~is_valid_database_uri(c.SQLALCHEMY_DATABASE_URI)
         THEN {Error("Invalid database URI format", {c.SQLALCHEMY_DATABASE_URI})}
         ELSE {}

\* Lines 246-273.
validate_jwt_secret_strength(c, secret) ==
    (IF Len(secret) < 12
     THEN {Error("JWT_SECRET_KEY must be at least 12 characters long", {})}
     ELSE {})
    \cup (IF lower(secret) \in {"secret", "password", "123456"} /\ ~c.DEBUG
          THEN {Error("Weak JWT secret detected", {secret})}
          ELSE {})

\* Lines 126-165.
validate_jwt_config(c) ==
    (IF c.JWT_SECRET_KEY # Unset
     THEN validate_jwt_secret_strength(c, c.JWT_SECRET_KEY)
     ELSE {})
    \cup (IF c.JWT_ALGORITHM \notin {"HS256", "HS384", "HS512", "RS256", "RS384", "RS512"}
          THEN {Error("Unsupported JWT algorithm", {c.JWT_ALGORITHM})}
          ELSE {})

\* Lines 275-307.
validate_secret_key_strength(c, secret) ==
    (IF Len(secret) < 16
     THEN {Error("SECRET_KEY must be at least 16 characters long", {})}
     ELSE {})
    \cup (IF lower(secret) \in {"secret", "password"} /\ ~c.DEBUG
          THEN {Error("Weak SECRET_KEY detected", {})}
          ELSE {})

\* Lines 167-191.
validate_security_config(c) ==
    (IF c.SECRET_KEY # Unset
     THEN validate_secret_key_strength(c, c.SECRET_KEY)
     ELSE {})
    \cup (IF ~c.DEBUG /\ ~c.TESTING /\ c.SECRET_KEY # Unset /\ Len(c.SECRET_KEY) < 32
          THEN {Error("SECRET_KEY must be at least 32 characters long in production", {})}
          ELSE {})

\* Lines 193-210.
validate_application_config(c) ==
    IF c.LOG_LEVEL \notin {"DEBUG", "INFO", "WARNING", "ERROR", "CRITICAL"}
    THEN {Error("Invalid log level", {c.LOG_LEVEL})}
    ELSE {}

\* Lines 414-449: the variables whose absence makes
\* _validate_production_environment raise ValueError (line 441).
production_missing_vars(c) ==
    (IF c.SECRET_KEY = Unset THEN {"SECRET_KEY"} ELSE {})
    \cup (IF c.SQLALCHEMY_DATABASE_URI = Unset THEN {"DATABASE_URI"} ELSE {})
    \cup (IF c.JWT_SECRET_KEY = Unset THEN {"JWT_SECRET_KEY"} ELSE {})

\* Lines 212-225: the exception validate_environment_specific raises, ""
\* when it returns.  The testing and development branches record warnings
\* only; the production branch is taken when neither TESTING nor DEBUG is set.
validate_environment_specific(c) ==
    IF ~c.TESTING /\ ~c.DEBUG /\ production_missing_vars(c) # {}
    THEN "ValueError"
    ELSE ""

\* Lines 50-81: the errors recorded and how the call ends.
validate_all(c) ==
    LET recorded == validate_required_fields(c) \cup validate_database_config(c)
                    \cup validate_jwt_config(c) \cup validate_security_config(c)
                    \cup validate_application_config(c)
    IN  [errors |-> recorded,
         ended |-> IF validate_environment_specific(c) # ""
                   THEN validate_environment_specific(c)
                   ELSE IF recorded # {} THEN "ConfigurationError"
                   ELSE "returned"]

\* validate_config(config), lines 452-466.
ValidateConfig ==
    /\ validated = ""
    /\ errors' = validate_all(config).errors
    /\ validated' = validate_all(config).ended
    /\ UNCHANGED config
    /\ UNCHANGED <<gateVars, modelVars, run, contentVars>>

InitConfig ==
    /\ db = [n \in ClientNames |-> <<>>]
    /\ NoRequest
    /\ NoCaller
    /\ NoContent
    /\ config \in ConfigInputs
    /\ errors = {}
    /\ validated = ""

NextConfig == ValidateConfig

SpecConfig == InitConfig /\ [][NextConfig]_vars

\* C24: validate_config raises ConfigurationError whenever a check recorded
\* an error or failed, and returns only when no check recorded an error.
C24_FailureRaisesConfigurationError ==
    validated # "" =>
        /\ errors # {} => validated = "ConfigurationError"
        /\ validated \in {"ConfigurationError", "returned"}
        /\ validated = "returned" => errors = {}


\* C25: a request whose key verified and whose usage recording failed, with
\* whatever exception, has had the wrapped view invoked when it ends.
C25_UsageFailureStillInvokesView ==
    \A w \in Workers :
        pc[w] = "done" /\ g_api_client[w] # <<>> /\ exc[w] \cap {"commit", "usage"} # {}
        => view_calls[w] = 1


\* A run of the command line starts for the name n, and the run's commit.
Starts(p, n) == run[p].pc = "idle" /\ run'[p].pc # "idle" /\ run'[p].client_name = <<n>>

Commits(p) == run[p].pc = "insert" /\ run'[p].pc = "exit"

\* The run p returned 1 and the table is as it was.
Returns1(p) == run'[p].pc = "exit" /\ run'[p].status = <<1>> /\ run'[p].raised = ""
               /\ api_clients' = api_clients

\* The run p stored exactly one new client, active and holding the hash of
\* the key it printed after the client's name and a dot, and returned 0.
StoresOne(p) ==
    /\ run'[p].status = <<0>> /\ run'[p].raised = ""
    /\ \E r \in api_clients' \ api_clients :
          /\ api_clients' = api_clients \cup {r}
          /\ <<r.name>> = run[p].client_name
          /\ r.is_active
          /\ IsHashOf(r.hashed_api_key, run[p].api_key[1])
          /\ run'[p].printed = <<r.name \o <<".">> \o run[p].api_key[1]>>

HashStored(p) == \E r \in api_clients : <<r.hashed_api_key>> = run[p].new_client[1].hashed_api_key

NameStored(p) == \E r \in api_clients : <<r.name>> = run[p].client_name

\* C26: a run of the command line for a name with a dot or for a name that
\* is stored returns 1 and leaves the table as it was; every other run
\* stores exactly one new active client, returns 0 and prints the client's
\* name, a dot and the key whose hash it stored.
C26_GenerateKeyOutcomes ==
    [][\A p \in Runs :
        /\ \A n \in CliNames \ {NameEmpty} :
              Starts(p, n) /\ (HasDot(n) \/ \E r \in api_clients : r.name = n)
              => Returns1(p)
        /\ Commits(p) /\ ~HashStored(p) => StoresOne(p)]_vars

\* C26 amended: a run for a name with a dot or for a name that is stored
\* when the run looks it up returns 1 and leaves the table as it was; any
\* other run stores exactly one new active client, returns 0 and prints the
\* name, a dot and the key whose hash it stored, unless another creation
\* stored the name (or the hash) between the run's lookup and its commit:
\* then the commit raises IntegrityError, nothing is stored and nothing is
\* printed.
C26_GenerateKeyOutcomesOrCollision ==
    [][\A p \in Runs :
        /\ \A n \in CliNames \ {NameEmpty} :
              Starts(p, n) /\ (HasDot(n) \/ \E r \in api_clients : r.name = n)
              => Returns1(p)
        /\ \A n \in CliNames \ {NameEmpty} :
              Starts(p, n) /\ ~(HasDot(n) \/ \E r \in api_clients : r.name = n)
              => run'[p].pc = "insert" /\ api_clients' = api_clients
        /\ Commits(p) =>
              IF NameStored(p) \/ HashStored(p)
              THEN /\ run'[p].raised = "IntegrityError"
                   /\ run'[p].status # <<0>>
                   /\ run'[p].printed = <<>>
                   /\ api_clients' = api_clients
              ELSE StoresOne(p)]_vars

\* One run stored client c and printed its credential; another run, for
\* the stored name a, returned 1.
C26_Witness ==
    \E p, q \in Runs :
        /\ run[p].status = <<0>> /\ run[p].client_name = <<NameC>>
        /\ run[p].printed = <<Credential(NameC, run[p].api_key[1])>>
        /\ \E r \in api_clients : r.name = NameC /\ IsHashOf(r.hashed_api_key, run[p].api_key[1])
        /\ run[q].status = <<1>> /\ run[q].client_name = <<NameA>> /\ run[q].raised = ""


\* The rows of the two tables agree except for the usage columns of n.
SameButUsage(before, after, n) ==
    /\ \A m \in DOMAIN before : m # n => after[m] = before[m]
    /\ after[n] # <<>>
    /\ after[n][1].name = before[n][1].name
    /\ after[n][1].hashed_api_key = before[n][1].hashed_api_key
    /\ after[n][1].is_active = before[n][1].is_active
    /\ after[n][1].created_at = before[n][1].created_at

\* C27: the steps of a request whose key verified change nothing of the
\* table but last_used_at and use_count of the authenticated client; name,
\* hashed_api_key, is_active and created_at of that client stay as they are
\* stored, also when is_active was changed after the request loaded the
\* client, and every other client stays as it is.
C27_OnlyUsageColumnsChange ==
    [][\A w \in Workers :
        /\ pc[w] = "commit" /\ CommitOk(w) =>
              /\ SameButUsage(db, db', client[w][1].name)
              /\ db'[client[w][1].name][1].last_used_at = pending[w][1].last_used_at
              /\ db'[client[w][1].name][1].use_count = pending[w][1].use_count
        /\ pc[w] # "idle" /\ (Admit(w) \/ CommitError(w) \/ ViewReturns(w)) => db' = db]_vars

\* A request that loaded client a as active has committed its usage and
\* the stored client is inactive.
C27_Witness ==
    \E w \in Workers :
        /\ pc[w] = "view"
        /\ client[w] # <<>> /\ client[w][1].name = NameA /\ client[w][1].is_active
        /\ "commit" \notin exc[w]
        /\ ~db[NameA][1].is_active
        /\ db[NameA][1].use_count = client[w][1].use_count + 1


\* Worker w records usage (line 118 returns) or calls the wrapped view.
ServesClient(w) ==
    \/ pc[w] = "commit" /\ CommitOk(w)
    \/ pc[w] = "view" /\ (ViewReturns(w) \/ \E kind \in {"view_storage", "view_other"} : ViewRaises(w, kind))

\* C28: usage is recorded and the wrapped view is invoked for a client only
\* at moments when the stored is_active of that client is true.
C28_ServedOnlyWhileActive ==
    [][\A w \in Workers :
        ServesClient(w) => db[client[w][1].name][1].is_active]_vars

\* C28 amended: a request is admitted (its lookup returns the client and
\* its key verifies) only at a moment when the stored is_active is true, so
\* no request whose lookup runs after the deactivation was committed is
\* admitted; usage is recorded and the view invoked only for requests
\* admitted so, also when the client was deactivated in between.
C28_AdmittedOnlyWhileActive ==
    /\ [][\A w \in Workers :
            /\ pc[w] = "lookup" /\ Admit(w) => db[client_name[w]][1].is_active
            /\ LookupReturns(w) /\ InactiveClient(db, client_name[w])
               => pc'[w] = "done" /\ resp'[w] = <<InvalidOrInactive>>
            /\ ServesClient(w) => g_api_client[w] = <<client[w][1].name>>]_vars
    /\ [](\A w \in Workers : g_api_client[w] # <<>> => client[w][1].is_active)

\* A request admitted before the deactivation is at the view while the
\* stored client is inactive, and another request for the same client has
\* been refused.
C28_Witness ==
    \E w, v \in Workers :
        /\ pc[w] = "view" /\ g_api_client[w] = <<NameA>>
        /\ ~db[NameA][1].is_active
        /\ pc[v] = "done" /\ resp[v] = <<InvalidOrInactive>>
        /\ header[v] = <<Credential(NameA, SecretS)>>


\* Timestamps that may be absent: t1 is not earlier than t0.
NotEarlier(t1, t0) == t0 = NoTime \/ (t1 # NoTime /\ t1[1] >= t0[1])

\* C29: once a usage commit of a client has returned its last_used_at is
\* set, and no usage commit moves the stored last_used_at to an earlier
\* timestamp than the one stored before it.
C29_LastUsedNeverMovesBack ==
    /\ [](\A n \in ClientNames :
            Stored(db, n) /\ usage_commits[n] > 0 => db[n][1].last_used_at # NoTime)
    /\ [][\A n \in ClientNames :
            Stored(db, n) => NotEarlier(db'[n][1].last_used_at, db[n][1].last_used_at)]_vars

\* C29 amended: once a usage commit of a client has returned its
\* last_used_at is set, and every usage commit stores the timestamp its
\* request read, which is later than the value that was stored when the
\* request looked the client up and than the client's created_at.
C29_LastUsedAfterLookup ==
    /\ [](\A n \in ClientNames :
            Stored(db, n) /\ usage_commits[n] > 0 => db[n][1].last_used_at # NoTime)
    /\ [][\A w \in Workers :
            pc[w] = "commit" /\ CommitOk(w) =>
                LET n == client[w][1].name IN
                /\ db'[n][1].last_used_at = pending[w][1].last_used_at
                /\ db'[n][1].last_used_at # NoTime
                /\ NotEarlier(db'[n][1].last_used_at, client[w][1].last_used_at)
                /\ NotEarlier(db'[n][1].last_used_at, db[n][1].created_at)]_vars

\* Two requests of client a have committed their usage, the second one
\* after the first had finished.
C29_Witness ==
    /\ usage_commits[NameA] = 2
    /\ db[NameA][1].use_count = 2
    /\ db[NameA][1].last_used_at = <<2>>


\* The credential name.k is that of a stored, active client whose stored
\* hash is the one create_with_api_key made of k.
IssuedCredential(n, k) ==
    /\ Stored(db, n)
    /\ db[n][1].is_active
    /\ IsHashOf(db[n][1].hashed_api_key, k)

\* C30: a request that presents name.k, the name and the key of a client
\* that create_with_api_key made and that is stored, active and unmodified,
\* passes the format checks with that name and key and is admitted when its
\* lookup returns.
C30_IssuedCredentialAdmitted ==
    [][\A w \in Workers :
        /\ \A n \in LifeNames, k \in GeneratedKeys :
              Receive(w, <<Credential(n, k)>>) /\ IssuedCredential(n, k)
              => pc'[w] = "lookup" /\ client_name'[w] = n /\ secret_key'[w] = k
        /\ \A n \in LifeNames, k \in GeneratedKeys :
              /\ LookupReturns(w) /\ header[w] = <<Credential(n, k)>>
              /\ IssuedCredential(n, k)
              => pc'[w] = "commit" /\ g_api_client'[w] = <<n>>]_vars

====
